---- MODULE Spec2Model ----
(***************************************************************************)
(* Model of the image editor: the Editor component's state and handlers    *)
(* (src/components/Editor.tsx) and the request shaping and response        *)
(* parsing of editImageWithGemini (src/services/geminiService.ts).         *)
(*                                                                         *)
(* Strings are sequences of tokens: '' is <<>>, concatenation is \o.       *)
(* A MIME type is <<major, subtype>> with the major token ending in '/',   *)
(* e.g. image/png is <<"image/", "png">>.  An optional value (undefined or *)
(* null in the code) is a sequence of length 0 or 1.                       *)
(***************************************************************************)
EXTENDS Integers, Sequences, FiniteSets, TLC

VARIABLES
    uploadedImages,   \* Editor.tsx:15  list of UploadedImage
    resultUrl,        \* Editor.tsx:16  optional data URI
    prompt,           \* Editor.tsx:17
    appState,         \* Editor.tsx:18
    errorMessage,     \* Editor.tsx:19
    gens,             \* the handleGenerate invocations awaiting a read or the call
    started,          \* how many invocations passed validation
    callsIssued,      \* how many times generateContent was called
    nextStamp,        \* source of the unique part of an image id
    lastOp            \* SpecService only: the handler that ran last and its input

vars == <<uploadedImages, resultUrl, prompt, appState, errorMessage, gens,
          started, callsIssued, nextStamp, lastOp>>

\* ------------------------------------------------------------------ bounds
MaxBatch == 2      \* files in one FileList
MaxGen == 2        \* handleGenerate invocations that pass validation
MaxStamps == 2     \* images created over a run, hence the length of the list
MaxParts == 2      \* parts in a response candidate

\* ----------------------------------------------------------------- values
None == <<>>
Some(x) == <<x>>

IDLE == "IDLE"
PROCESSING == "PROCESSING"
SUCCESS == "SUCCESS"
ERROR == "ERROR"

AppState == {IDLE, PROCESSING, SUCCESS, ERROR}

ImagePrefix == <<"image/">>

\* String.prototype.startsWith
StartsWith(s, p) == Len(s) >= Len(p) /\ SubSeq(s, 1, Len(p)) = p

IsSpace(c) == c = " "

\* String.prototype.trim: whitespace is removed from both ends
RECURSIVE TrimStart(_)
TrimStart(s) ==
    IF s # <<>> /\ IsSpace(Head(s)) THEN TrimStart(Tail(s)) ELSE s

RECURSIVE TrimEnd(_)
TrimEnd(s) ==
    IF s # <<>> /\ IsSpace(s[Len(s)]) THEN TrimEnd(SubSeq(s, 1, Len(s) - 1)) ELSE s

Trim(s) == TrimEnd(TrimStart(s))

\* a || b on strings: the empty string is falsy
OrElse(a, b) == IF a # <<>> THEN a ELSE b

\* the files a user can pick or drop
Files ==
    { [name |-> "a.png", type |-> <<"image/", "png">>, body |-> <<"QUJD">>],
      [name |-> "b.gif", type |-> <<"image/", "gif">>, body |-> <<"R0lG">>],
      [name |-> "c.txt", type |-> <<"text/", "plain">>, body |-> <<"dHh0">>] }

RECURSIVE SeqsUpTo(_, _)
SeqsUpTo(S, n) ==
    IF n = 0 THEN { <<>> }
    ELSE LET shorter == SeqsUpTo(S, n - 1)
         IN  shorter \cup { Append(s, x) : s \in shorter, x \in S }

\* a FileList with at least one file (Editor.tsx:53, 69)
Batches == SeqsUpTo(Files, MaxBatch) \ { <<>> }

DefaultPrompt == <<"Remove from this image those green markers">>

\* what the user can type: a blank text, or the instruction the editor starts with
Prompts == { <<" ">>, DefaultPrompt }

\* ---------------------------------------------------------------- messages
MissingInputMessage == <<"Please upload at least one image and provide a prompt.">>
UnexpectedMessage == <<"An unexpected error occurred.">>
FailedMessage == <<"Failed to generate image.">>
NoImageDataMessage == <<"No image data provided for editing.">>
NoCandidatesMessage == <<"No response candidates from Gemini.">>
NoImageReturnedMessage ==
    <<"The model processed the request but did not return an image. Try rephrasing your prompt or ensure the request is valid for the provided images.">>
CommunicationMessage == <<"An unexpected error occurred while communicating with Gemini.">>
\* the messages of the TypeErrors raised by candidates[0].content.parts and
\* by for...of over an undefined parts
ReadingPartsMessage == <<"Cannot read properties of undefined (reading 'parts')">>
NotIterableMessage == <<"parts is not iterable">>

\* `File "${name}" is not a valid image. Skipping.`
InvalidFileMessage(name) == <<"File \"", name, "\" is not a valid image. Skipping.">>

\* ------------------------------------------------------------ image reading
\* FileReader.readAsDataURL: data:<blob type>;base64,<base64 of the bytes>
convertBlobToBase64(file) == <<"data:">> \o file.type \o <<";base64,">> \o file.body

\* ------------------------------------------------------- editImageWithGemini
CleanedSubtypes == {"png", "jpeg", "jpg", "webp"}

\* base64Data.replace(/^data:image\/(png|jpeg|jpg|webp);base64,/, "")
CleanBase64(s) ==
    IF /\ Len(s) >= 4
       /\ s[1] = "data:"
       /\ s[2] = "image/"
       /\ s[3] \in CleanedSubtypes
       /\ s[4] = ";base64,"
    THEN SubSeq(s, 5, Len(s))
    ELSE s

TextPart(t) == [kind |-> "text", text |-> t, mimeType |-> <<>>, data |-> <<>>]
InlinePart(m, d) == [kind |-> "inlineData", text |-> <<>>, mimeType |-> m, data |-> d]

\* imageData.map(img => ({inlineData: {mimeType, data}}))
ImageParts(imageData) ==
    [i \in 1..Len(imageData) |->
        InlinePart(imageData[i].mimeType, CleanBase64(imageData[i].base64Data))]

\* [{ text: prompt }, ...imageParts]
AllContentsParts(imageData, p) == <<TextPart(p)>> \o ImageParts(imageData)

\* one part of a response candidate; an absent field and an empty one are
\* both falsy in the code and are both <<>> here
Part(hasInline, data, mimeType, text) ==
    [hasInline |-> hasInline, data |-> data, mimeType |-> mimeType, text |-> text]

TextOnly == Part(FALSE, <<>>, <<>>, <<"I cannot edit this image.">>)
NoContent == Part(FALSE, <<>>, <<>>, <<>>)
JpegImage == Part(TRUE, <<"iVBOR">>, <<"image/", "jpeg">>, <<>>)
UntypedImage == Part(TRUE, <<"UklGR">>, <<>>, <<"Here is the edit.">>)
EmptyInline == Part(TRUE, <<>>, <<"image/", "png">>, <<>>)

PartSet == { TextOnly, NoContent, JpegImage, UntypedImage, EmptyInline }

PartLists == SeqsUpTo(PartSet, MaxParts)

Candidate(content) == [content |-> content]
WithParts(ps) == Candidate(Some([parts |-> Some(ps)]))

FirstCandidates ==
    { Candidate(None), Candidate(Some([parts |-> None])) }
        \cup { WithParts(ps) : ps \in PartLists }

OtherCandidate == WithParts(<<Part(TRUE, <<"R0lGO">>, <<"image/", "gif">>, <<"second">>)>>)

Thrown(m) == [kind |-> "throw", message |-> m, candidates |-> None]
Returned(cs) == [kind |-> "response", message |-> <<>>, candidates |-> cs]

\* what ai.models.generateContent can do: throw, or resolve with a response
Responses ==
    { Thrown(<<>>), Thrown(<<"Failed to fetch">>), Returned(None), Returned(Some(<<>>)) }
        \cup { Returned(Some(<<c>>)) : c \in FirstCandidates }
        \cup { Returned(Some(<<c, OtherCandidate>>)) : c \in FirstCandidates }

\* one response of each outcome: an error thrown, no candidate, an image
SampleResponses ==
    { Thrown(<<"Failed to fetch">>),
      Returned(Some(<<>>)),
      Returned(Some(<<WithParts(<<TextOnly, JpegImage>>)>>)) }

\* an EditResponse, or the rejection of the promise
Resolved(success, image, error) ==
    [rejected |-> FALSE, success |-> success, image |-> image, error |-> error]
Rejected == [rejected |-> TRUE, success |-> FALSE, image |-> <<>>, error |-> <<>>]

PartHasImage(part) == part.hasInline /\ part.data # <<>>

\* `data:${returnedMime};base64,${generatedImageBase64}`
ImageDataUri(part) ==
    <<"data:">> \o OrElse(part.mimeType, <<"image/", "png">>) \o <<";base64,">> \o part.data

\* the loop without its break: the last part with an image wins
RECURSIVE LastGeneratedImage(_)
LastGeneratedImage(parts) ==
    IF parts = <<>> THEN <<>>
    ELSE IF PartHasImage(parts[Len(parts)]) THEN ImageDataUri(parts[Len(parts)])
    ELSE LastGeneratedImage(SubSeq(parts, 1, Len(parts) - 1))

\* the for...of loop with its break: null (<<>>) when no part has an image
RECURSIVE GeneratedImage(_)
GeneratedImage(parts) ==
    IF parts = <<>> THEN <<>>
    ELSE IF PartHasImage(Head(parts)) THEN ImageDataUri(Head(parts))
    ELSE GeneratedImage(Tail(parts))

\* parts.find(p => p.text)?.text
RECURSIVE FindText(_)
FindText(parts) ==
    IF parts = <<>> THEN <<>>
    ELSE IF Head(parts).text # <<>> THEN Head(parts).text
    ELSE FindText(Tail(parts))

ParseParts(parts) ==
    LET generatedImageBase64 == GeneratedImage(parts)
    IN  IF generatedImageBase64 # <<>>
        THEN Resolved(TRUE, generatedImageBase64, <<>>)
        ELSE Resolved(FALSE, <<>>, OrElse(FindText(parts), NoImageReturnedMessage))

\* the catch block without its fallback message
CaughtWithoutFallback(message) == Resolved(FALSE, <<>>, message)

\* the catch block: error.message || "An unexpected error ..."
Caught(message) == Resolved(FALSE, <<>>, OrElse(message, CommunicationMessage))

\* everything editImageWithGemini does once generateContent has settled
ParseResponse(raw) ==
    IF raw.kind = "throw" THEN Caught(raw.message)
    ELSE IF raw.candidates = None \/ raw.candidates[1] = <<>>
         THEN Resolved(FALSE, <<>>, NoCandidatesMessage)
    ELSE LET first == raw.candidates[1][1]
         IN  IF first.content = None THEN Caught(ReadingPartsMessage)
             ELSE IF first.content[1].parts = None THEN Caught(NotIterableMessage)
             ELSE ParseParts(first.content[1].parts[1])

\* -------------------------------------------------------------- processFiles
IsImageFile(file) == StartsWith(file.type, ImagePrefix)

\* `${name}-${Date.now()}-${Math.random()}`: the stamp stands for the time
\* and the random number, which make the id unique
ImageId(name, stamp) == [name |-> name, stamp |-> stamp]

UploadedImage(file, stamp) ==
    [id |-> ImageId(file.name, stamp), file |-> file, mimeType |-> file.type]

\* the for loop's newImages.push, from the first file on
RECURSIVE NewImages(_, _)
NewImages(selectedFiles, stamp) ==
    IF selectedFiles = <<>> THEN <<>>
    ELSE IF ~IsImageFile(Head(selectedFiles)) THEN NewImages(Tail(selectedFiles), stamp)
    ELSE <<UploadedImage(Head(selectedFiles), stamp)>>
            \o NewImages(Tail(selectedFiles), stamp + 1)

\* (prev) => (prev ? prev + ' ' : '') + `File "..." is not a valid image. Skipping.`
SkipUpdater(prev, name) ==
    (IF prev # <<>> THEN prev \o <<" ">> ELSE <<>>) \o InvalidFileMessage(name)

\* the queued setErrorMessage updaters of the loop, applied in order to prev
RECURSIVE SkipMessages(_, _)
SkipMessages(selectedFiles, prev) ==
    IF selectedFiles = <<>> THEN prev
    ELSE IF ~IsImageFile(Head(selectedFiles))
         THEN SkipMessages(Tail(selectedFiles), SkipUpdater(prev, Head(selectedFiles).name))
    ELSE SkipMessages(Tail(selectedFiles), prev)

\* the loop's updaters without the setErrorMessage('') before them
ErrorKeptAfterUpload(before, selectedFiles) == SkipMessages(selectedFiles, before)

\* setErrorMessage('') first, then the loop's updaters
ErrorAfterUpload(before, selectedFiles) == SkipMessages(selectedFiles, <<>>)

\* setUploadedImages((prev) => [...prev, ...newImages])
ImagesAfterUpload(prev, newImages) == prev \o newImages

processFiles(selectedFiles) ==
    LET newImages == NewImages(selectedFiles, nextStamp)
    IN  /\ nextStamp + Len(newImages) <= MaxStamps + 1
        /\ errorMessage' = ErrorAfterUpload(errorMessage, selectedFiles)
        /\ uploadedImages' = ImagesAfterUpload(uploadedImages, newImages)
        /\ nextStamp' = nextStamp + Len(newImages)
        /\ resultUrl' = None
        /\ appState' = IDLE
        /\ UNCHANGED <<prompt, gens, started, callsIssued>>

\* handleFileChange and handleDrop: a non-empty FileList goes to processFiles
Upload == \E selectedFiles \in Batches : processFiles(selectedFiles)

\* --------------------------------------------------- removeImage, clearAll
WithoutImage(prev, idToRemove) == SelectSeq(prev, LAMBDA img : img.id # idToRemove)

removeImage(idToRemove) ==
    LET updatedImages == WithoutImage(uploadedImages, idToRemove)
    IN  /\ uploadedImages' = updatedImages
        /\ IF Len(updatedImages) = 0
           THEN resultUrl' = None /\ appState' = IDLE
           ELSE UNCHANGED <<resultUrl, appState>>
        /\ UNCHANGED <<prompt, errorMessage, gens, started, callsIssued, nextStamp>>

\* the X button of a preview: only the ids in the list can be clicked
Remove == \E i \in 1..Len(uploadedImages) : removeImage(uploadedImages[i].id)

hasImages == Len(uploadedImages) > 0

clearAllImages ==
    /\ uploadedImages' = <<>>
    /\ resultUrl' = None
    /\ appState' = IDLE
    /\ errorMessage' = <<>>
    /\ UNCHANGED <<prompt, gens, started, callsIssued, nextStamp>>

\* the clear-all button is rendered only when there are images
ClearAll == hasImages /\ clearAllImages

\* ------------------------------------------------------------------ prompt
setPrompt(value) ==
    /\ prompt' = value
    /\ UNCHANGED <<uploadedImages, resultUrl, appState, errorMessage, gens, started, callsIssued, nextStamp>>

EditPrompt == \E value \in Prompts : value # prompt /\ setPrompt(value)

\* ---------------------------------------------------------- handleGenerate
\* the validation without trim()
MissingInputUntrimmed == Len(uploadedImages) = 0 \/ prompt = <<>>

\* uploadedImages.length === 0 || !prompt.trim()
MissingInput == Len(uploadedImages) = 0 \/ Trim(prompt) = <<>>

\* uploadedImages.map(async (img) => ...) starts one read per image of the
\* list the invocation closed over; each read holds img.file and img.mimeType
ImageReads(images) ==
    [i \in 1..Len(images) |-> [file |-> images[i].file, mimeType |-> images[i].mimeType]]

\* what the invocation holds while it waits, and how far it has got
NewGeneration(images, p) ==
    [phase |-> "reading", reads |-> ImageReads(images), prompt |-> p,
     request |-> None, calls |-> 0]

\* setAppState(PROCESSING); setErrorMessage(''); the reads are started
StartGeneration ==
    /\ started < MaxGen
    /\ appState' = PROCESSING
    /\ errorMessage' = <<>>
    /\ gens' = Append(gens, NewGeneration(uploadedImages, prompt))
    /\ started' = started + 1
    /\ UNCHANGED <<uploadedImages, resultUrl, prompt, callsIssued, nextStamp>>

RejectGeneration ==
    /\ errorMessage' = MissingInputMessage
    /\ UNCHANGED <<uploadedImages, resultUrl, prompt, appState, gens, started, callsIssued, nextStamp>>

\* the synchronous part of handleGenerate, up to the first await
handleGenerate == IF MissingInput THEN RejectGeneration ELSE StartGeneration

\* disabled={uploadedImages.length === 0 || !prompt.trim() || appState === PROCESSING}
GenerateDisabled == Len(uploadedImages) = 0 \/ Trim(prompt) = <<>> \/ appState = PROCESSING

\* a click on the Generate button
GenerateClick == ~GenerateDisabled /\ handleGenerate

\* the reads taken from the list as it is when they end
ReadLiveImageParts(gen) ==
    [i \in 1..Len(uploadedImages) |->
        [base64Data |-> convertBlobToBase64(uploadedImages[i].file),
         mimeType |-> uploadedImages[i].mimeType]]

\* Promise.all of the reads: { base64Data, mimeType: img.mimeType } per image
ReadImageParts(gen) ==
    [i \in 1..Len(gen.reads) |->
        [base64Data |-> convertBlobToBase64(gen.reads[i].file),
         mimeType |-> gen.reads[i].mimeType]]

\* the state updates of handleGenerate's else branch and of its catch block
ShowError(message) ==
    /\ appState' = ERROR
    /\ errorMessage' = message
    /\ UNCHANGED resultUrl

ShowResult(image) ==
    /\ resultUrl' = Some(image)
    /\ appState' = SUCCESS
    /\ UNCHANGED errorMessage

\* the invocations still waiting, without the g-th, which has returned
Finished(g) == [i \in 1..(Len(gens) - 1) |-> IF i < g THEN gens[i] ELSE gens[i + 1]]

\* the invocation after editImageWithGemini has called generateContent
Calling(gen, imageParts) ==
    [gen EXCEPT !.phase = "calling",
                !.request = Some(AllContentsParts(imageParts, gen.prompt)),
                !.calls = @ + 1]

\* Promise.all resolved: editImageWithGemini builds the request and calls the
\* model, or returns at once when it was given no image
ReadsDone(g) ==
    LET gen == gens[g]
        imageParts == ReadImageParts(gen)
    IN  /\ gen.phase = "reading"
        /\ IF Len(imageParts) = 0
           THEN /\ ShowError(NoImageDataMessage)
                /\ gens' = Finished(g)
                /\ UNCHANGED callsIssued
           ELSE /\ gens' = [gens EXCEPT ![g] = Calling(gen, imageParts)]
                /\ callsIssued' = callsIssued + 1
                /\ UNCHANGED <<resultUrl, appState, errorMessage>>
        /\ UNCHANGED <<uploadedImages, prompt, started, nextStamp>>

\* reader.onerror: Promise.all rejects and the catch block runs
ReadFails(g) ==
    /\ gens[g].phase = "reading"
    /\ ShowError(UnexpectedMessage)
    /\ gens' = Finished(g)
    /\ UNCHANGED <<uploadedImages, prompt, started, callsIssued, nextStamp>>

\* response.error || 'Failed to generate image.'
ResponseError(response) == OrElse(response.error, FailedMessage)

\* the same with a retry: a failed outcome is shown and the call made again
CallReturnsRetrying(g, raw) ==
    LET response == ParseResponse(raw)
    IN  /\ gens[g].phase = "calling"
        /\ IF response.success /\ response.image # <<>>
           THEN ShowResult(response.image) /\ gens' = Finished(g) /\ UNCHANGED callsIssued
           ELSE /\ ShowError(ResponseError(response))
                /\ gens' = [gens EXCEPT ![g].calls = @ + 1]
                /\ callsIssued' = callsIssued + 1
        /\ UNCHANGED <<uploadedImages, prompt, started, nextStamp>>

\* generateContent settled: editImageWithGemini parses, handleGenerate shows
\* the outcome and returns
CallReturns(g, raw) ==
    LET response == ParseResponse(raw)
    IN  /\ gens[g].phase = "calling"
        /\ IF response.rejected THEN ShowError(UnexpectedMessage)
           ELSE IF response.success /\ response.image # <<>> THEN ShowResult(response.image)
           ELSE ShowError(ResponseError(response))
        /\ gens' = Finished(g)
        /\ UNCHANGED callsIssued
        /\ UNCHANGED <<uploadedImages, prompt, started, nextStamp>>

Generations == 1..Len(gens)

ImagesRead == \E g \in Generations : ReadsDone(g)
ImageReadFails == \E g \in Generations : ReadFails(g)
CallSettles == \E g \in Generations : \E raw \in SampleResponses : CallReturns(g, raw)

\* ------------------------------------------------------------ specifications
Init ==
    /\ uploadedImages = <<>>
    /\ resultUrl = None
    /\ prompt = DefaultPrompt
    /\ appState = IDLE
    /\ errorMessage = <<>>
    /\ gens = <<>>
    /\ started = 0
    /\ callsIssued = 0
    /\ nextStamp = 1
    /\ lastOp = [op |-> "none"]

\* the component as the user drives it
Next ==
    \/ Upload /\ UNCHANGED lastOp
    \/ Remove /\ UNCHANGED lastOp
    \/ ClearAll /\ UNCHANGED lastOp
    \/ EditPrompt /\ UNCHANGED lastOp
    \/ GenerateClick /\ UNCHANGED lastOp
    \/ ImagesRead /\ UNCHANGED lastOp
    \/ ImageReadFails /\ UNCHANGED lastOp
    \/ CallSettles /\ UNCHANGED lastOp

Spec == Init /\ [][Next]_vars

\* the same, with handleGenerate invoked whatever the state of the button
NextHandler ==
    \/ Upload /\ UNCHANGED lastOp
    \/ Remove /\ UNCHANGED lastOp
    \/ ClearAll /\ UNCHANGED lastOp
    \/ EditPrompt /\ UNCHANGED lastOp
    \/ handleGenerate /\ UNCHANGED lastOp
    \/ ImagesRead /\ UNCHANGED lastOp
    \/ ImageReadFails /\ UNCHANGED lastOp
    \/ CallSettles /\ UNCHANGED lastOp

SpecHandler == Init /\ [][NextHandler]_vars

\* a user who lets every generation end before acting again, with every
\* response the model can give; each step records the handler and its input
Ran(op) == [op |-> op, batch |-> <<>>, raw |-> Thrown(<<>>)]

UploadRecorded ==
    \E selectedFiles \in Batches :
        /\ processFiles(selectedFiles)
        /\ lastOp' = [Ran("processFiles") EXCEPT !.batch = selectedFiles]

CallSettlesRecorded ==
    \E g \in Generations : \E raw \in Responses :
        /\ CallReturns(g, raw)
        /\ lastOp' = [Ran("callReturns") EXCEPT !.raw = raw]

NextService ==
    \/ gens = <<>> /\ UploadRecorded
    \/ gens = <<>> /\ Remove /\ lastOp' = Ran("removeImage")
    \/ gens = <<>> /\ ClearAll /\ lastOp' = Ran("clearAllImages")
    \/ gens = <<>> /\ EditPrompt /\ lastOp' = Ran("setPrompt")
    \/ gens = <<>> /\ GenerateClick /\ lastOp' = Ran("handleGenerate")
    \/ ImagesRead /\ lastOp' = Ran("readsDone")
    \/ ImageReadFails /\ lastOp' = Ran("readFails")
    \/ CallSettlesRecorded

SpecService == Init /\ [][NextService]_vars

\* a read or a call of some invocation in flight settles
Settles == (ImagesRead \/ ImageReadFails \/ CallSettles) /\ UNCHANGED lastOp

\* the component as the user drives it, where every read and every call
\* that is awaited settles in the end
SpecLive == Spec /\ WF_vars(Settles)

\* ------------------------------------------------------------------- claims
\* a text with nothing in it, or with nothing in it but spaces
Blank(text) == \A i \in 1..Len(text) : text[i] = " "

\* C1: whenever handleGenerate runs with no uploaded image or with a blank
\* prompt, it sets the error message to the missing-input message, starts no
\* generation and no call, and leaves status, result and images as they were.
MissingInputIsBlocked ==
    [][ ((uploadedImages = <<>> \/ Blank(prompt)) /\ handleGenerate)
            => /\ errorMessage' = MissingInputMessage
               /\ UNCHANGED <<appState, resultUrl, uploadedImages, gens, started, callsIssued>> ]_vars

\* handleGenerate was refused while an earlier generation was still reading
MissingInputWitness ==
    /\ errorMessage = MissingInputMessage
    /\ Blank(prompt)
    /\ uploadedImages # <<>>
    /\ appState = PROCESSING
    /\ Len(gens) = 1

TypeIsImage(file) == file.type # <<>> /\ file.type[1] = "image/"

AcceptedOf(batch) == SelectSeq(batch, TypeIsImage)
RejectedOf(batch) == SelectSeq(batch, LAMBDA file : ~TypeIsImage(file))

\* the entries of the rejected files, in order, with a space between two
RECURSIVE SkippingEntries(_)
SkippingEntries(rejected) ==
    IF rejected = <<>> THEN <<>>
    ELSE IF Len(rejected) = 1 THEN InvalidFileMessage(rejected[1].name)
    ELSE InvalidFileMessage(rejected[1].name) \o <<" ">> \o SkippingEntries(Tail(rejected))

\* C2: an upload adds exactly the files whose type starts with image/, after
\* the images already there and in batch order, and leaves as error message
\* one entry per rejected file of the batch, in batch order, and nothing else.
UploadSkipsInvalidFiles ==
    [][ lastOp'.op = "processFiles" =>
            LET accepted == AcceptedOf(lastOp'.batch)
                before == Len(uploadedImages)
            IN  /\ Len(uploadedImages') = before + Len(accepted)
                /\ SubSeq(uploadedImages', 1, before) = uploadedImages
                /\ \A i \in 1..Len(accepted) :
                      /\ uploadedImages'[before + i].file = accepted[i]
                      /\ uploadedImages'[before + i].mimeType = accepted[i].type
                /\ errorMessage' = SkippingEntries(RejectedOf(lastOp'.batch)) ]_vars

\* two files were skipped while an image uploaded before was kept
UploadSkipsWitness ==
    /\ lastOp.op = "processFiles"
    /\ Len(lastOp.batch) = 2
    /\ Len(uploadedImages) = 1
    /\ errorMessage = InvalidFileMessage("c.txt") \o <<" ">> \o InvalidFileMessage("c.txt")

\* the parts of the first candidate, when the response has them
HasParts(raw) ==
    /\ raw.kind = "response"
    /\ raw.candidates # None
    /\ raw.candidates[1] # <<>>
    /\ raw.candidates[1][1].content # None
    /\ raw.candidates[1][1].content[1].parts # None

FirstParts(raw) == raw.candidates[1][1].content[1].parts[1]

CarriesImage(part) == part.hasInline /\ part.data # <<>>

ImageIndexes(parts) == { i \in 1..Len(parts) : CarriesImage(parts[i]) }
TextIndexes(parts) == { i \in 1..Len(parts) : parts[i].text # <<>> }

Least(S) == CHOOSE n \in S : \A m \in S : n <= m

\* a thrown error, no candidate, a candidate without content or parts, or
\* parts none of which carries an image
CallFailed(raw) == ~HasParts(raw) \/ ImageIndexes(FirstParts(raw)) = {}

\* C3: editImageWithGemini never rejects; a failed call gives success=false,
\* a non-empty error and no image; and handleGenerate then sets the status to
\* ERROR and the error message to that error, leaving result and images alone.
FailuresAreSurfaced ==
    [][ lastOp'.op = "callReturns" =>
            LET response == ParseResponse(lastOp'.raw)
            IN  /\ ~response.rejected
                /\ CallFailed(lastOp'.raw) =>
                      /\ ~response.success
                      /\ response.error # <<>>
                      /\ response.image = <<>>
                      /\ appState' = ERROR
                      /\ errorMessage' = response.error
                      /\ UNCHANGED <<resultUrl, uploadedImages>> ]_vars

\* an error thrown without a message ended as an error on screen, under the
\* result of an earlier generation
FailuresWitness ==
    /\ lastOp.op = "callReturns"
    /\ lastOp.raw = Thrown(<<>>)
    /\ appState = ERROR
    /\ errorMessage = CommunicationMessage
    /\ resultUrl # None
    /\ uploadedImages # <<>>

ExpectedImage(part) ==
    <<"data:">> \o (IF part.mimeType = <<>> THEN <<"image/", "png">> ELSE part.mimeType)
        \o <<";base64,">> \o part.data

ExpectedError(parts) ==
    IF TextIndexes(parts) = {} THEN NoImageReturnedMessage
    ELSE parts[Least(TextIndexes(parts))].text

\* C4: for any parts of the first candidate the outcome is the data URI of
\* the first part carrying an image when there is one, and otherwise a
\* failure with the first non-empty text, or with the fixed message; the
\* other candidates change nothing.
ParsingFindsTheImage ==
    (lastOp.op = "callReturns" /\ HasParts(lastOp.raw)) =>
        LET parts == FirstParts(lastOp.raw)
            response == ParseResponse(lastOp.raw)
        IN  IF ImageIndexes(parts) # {}
            THEN /\ response.success
                 /\ response.image = ExpectedImage(parts[Least(ImageIndexes(parts))])
                 /\ appState = SUCCESS
                 /\ resultUrl = Some(response.image)
            ELSE /\ ~response.success
                 /\ response.error = ExpectedError(parts)
                 /\ appState = ERROR
                 /\ errorMessage = response.error

\* of two images the first came back without a type and is shown as
\* image/png, past the second candidate
ParsingWitness ==
    /\ lastOp.op = "callReturns"
    /\ lastOp.raw = Returned(Some(<<WithParts(<<UntypedImage, JpegImage>>), OtherCandidate>>))
    /\ appState = SUCCESS
    /\ resultUrl = Some(<<"data:", "image/", "png", ";base64,", "UklGR">>)

EndsWith(s, suffix) ==
    Len(s) >= Len(suffix) /\ SubSeq(s, Len(s) - Len(suffix) + 1, Len(s)) = suffix

\* C5: the request of a call is the prompt text, then one inline payload per
\* image of the list at the moment of the click, in order and with that
\* image's type, whatever has happened to the list since.
RequestShape ==
    \A g \in Generations : gens[g].phase = "calling" =>
        LET parts == gens[g].request[1]
            reads == gens[g].reads
        IN  /\ Len(parts) = 1 + Len(reads)
            /\ parts[1].kind = "text"
            /\ parts[1].text = gens[g].prompt
            /\ \A i \in 1..Len(reads) :
                  /\ parts[i + 1].kind = "inlineData"
                  /\ parts[i + 1].mimeType = reads[i].file.type
                  /\ EndsWith(parts[i + 1].data, reads[i].file.body)

\* a call with two images is out while the list has been cleared and the
\* prompt blanked
RequestShapeWitness ==
    \E g \in Generations :
        /\ gens[g].phase = "calling"
        /\ Len(gens[g].request[1]) = 3
        /\ gens[g].request[1][2].mimeType # gens[g].request[1][3].mimeType
        /\ uploadedImages = <<>>
        /\ Blank(prompt)

\* C6: the data of every inline payload is the bare base64 body of its image.
PayloadIsRawBase64 ==
    \A g \in Generations : gens[g].phase = "calling" =>
        \A i \in 1..Len(gens[g].reads) :
            gens[g].request[1][i + 1].data = gens[g].reads[i].file.body

\* C7: a generation calls the model once when its images are read, never
\* when a read fails, and never again after the call settles; the calls
\* never outnumber the generations that passed validation.
NoRetry ==
    [][ /\ callsIssued' <= started'
        /\ \A g \in 1..Len(gens') : gens'[g].calls = (IF gens'[g].phase = "calling" THEN 1 ELSE 0)
        /\ gens' # gens =>
              /\ \A g \in Generations : ReadsDone(g) => callsIssued' = callsIssued + 1
              /\ \A g \in Generations : ReadFails(g) => callsIssued' = callsIssued
              /\ \A g \in Generations : \A raw \in SampleResponses :
                    CallReturns(g, raw) => callsIssued' = callsIssued ]_vars

\* two generations have ended: one called the model, one failed to read
NoRetryWitness ==
    /\ started = 2
    /\ callsIssued = 1
    /\ gens = <<>>
    /\ errorMessage = NoCandidatesMessage

\* C8: at most one generation is outstanding at any time.
OneGenerationOutstanding == Len(gens) <= 1

\* C9: an empty list implies no result and a status that is neither SUCCESS
\* nor ERROR.
NoResultWithoutImages ==
    uploadedImages = <<>> => (resultUrl = None /\ appState \notin {SUCCESS, ERROR})

\* C10: SUCCESS implies a result and no error message, ERROR implies an
\* error message.
StatusMatchesDisplay ==
    /\ appState = SUCCESS => resultUrl # None
    /\ appState = ERROR => errorMessage # <<>>
    /\ appState = SUCCESS => errorMessage = <<>>

\* some invocation of handleGenerate returns in this step
GenerationEnds == Len(gens') < Len(gens)

\* under SpecLive every generation in flight ends, and the step that ends it
\* sets the status to SUCCESS or to ERROR (a failed read: to ERROR with the
\* unexpected-error message)
GenerationsEnd == (gens # <<>>) ~> (gens = <<>>)

EndSetsStatus ==
    [][ GenerationEnds =>
            /\ appState' \in {SUCCESS, ERROR}
            /\ (\E g \in Generations : ReadFails(g)) =>
                  (appState' = ERROR /\ errorMessage' = UnexpectedMessage) ]_vars

\* the status is never PROCESSING when no generation is in flight
IdleWhenNothingOutstanding == gens = <<>> => appState # PROCESSING

\* C11: the status is PROCESSING exactly while a generation is outstanding:
\* not PROCESSING when none is, PROCESSING when one is.
ProcessingWhileOutstanding ==
    /\ gens = <<>> => appState # PROCESSING
    /\ gens # <<>> => appState = PROCESSING

====
